---- MODULE Spec2Model ----
(***************************************************************************)
(* ShapeDetector.detectShapes of src/src/main.ts as a state machine.       *)
(*                                                                         *)
(* One call of detectShapes is a run through the program counter           *)
(*   grayscale -> otsu -> binarize -> scan <-> floodFill -> return -> idle *)
(* Every loop whose termination or intermediate states matter (the stack   *)
(* loop of floodFill, the row-major mask scan) is modelled one iteration   *)
(* per step; the straight-line loops (grayscale, histogram, Otsu scan,     *)
(* binarisation, perimeter, corner sampling) are computed by operators.    *)
(*                                                                         *)
(* Conventions                                                             *)
(*  - JavaScript arrays are functions on 0..n-1 (typed arrays) or          *)
(*    sequences (stack, pixels, edges, shapes).                            *)
(*  - A read past the end of a typed array is `undefined`; arithmetic on   *)
(*    it is NaN.  NaN is the value Undefined below.                        *)
(*  - Floating point results are kept exact: a value of the code that is a *)
(*    quotient is kept as <<numerator, denominator>> and compared by       *)
(*    FracGT; comparisons against the irrational thresholds (cos 0.4,      *)
(*    cos 1.3, pi) use 9 resp. 7 digit approximations, which no quotient   *)
(*    within the bounds of the model comes near.                           *)
(***************************************************************************)
EXTENDS Integers, Sequences, FiniteSets, TLC

\* ------------------------------------------------------------------ bounds
\* Size of the full-size images: wide enough for two regions, left and right of
\* a separating column, that both pass the area filter.
BigW == 13
BigH == 10
\* Size of the small images (nothing passes the area filter there).
SmallW == 3
SmallH == 2
\* detectShapes is called at most MaxCalls times on one ShapeDetector.
MaxCalls == 2

\* ------------------------------------------------------- program constants
DefaultThresh == 127
MinArea == 50
AreaDivisor == 15000
MinSampleStep == 2
SampleDivisor == 50
Foreground == 255
\* cos(0.4)^2 and cos(1.3)^2, times 10^9: angle > 0.4 && angle < 1.3
CosSqScale == 1000000000
CosSqLow == 848353354
CosSqHigh == 71555623
\* pi * 10^6
PiMicro == 3141593
\* value of a read past the end of imageData.data (undefined, NaN in arithmetic)
Undefined == -1

\* ---------------------------------------------------------------- helpers
Max(a, b) == IF a >= b THEN a ELSE b

Min(a, b) == IF a <= b THEN a ELSE b

\* a/b > c/d for a, c >= 0 and b, d > 0, by the Euclidean expansion (exact, and
\* without the products of a cross-multiplication).  Here and below a value
\* that a recursion hands on is bound by a quantifier over a singleton, so that
\* it is computed once.
RECURSIVE FracGT(_, _, _, _)
FracGT(a, b, c, d) ==
    LET q1 == a \div b
        q2 == c \div d
        r1 == a % b
        r2 == c % d
    IN  IF q1 # q2 THEN q1 > q2
        ELSE IF r1 = 0 THEN FALSE
        ELSE IF r2 = 0 THEN TRUE
        ELSE \E v \in {<<d, r2, b, r1>>} : FracGT(v[1], v[2], v[3], v[4])

\* ------------------------------------------------------ Step 1: grayscale
\* data[i], undefined past the end
DataAt(data, i) == IF i \in DOMAIN data THEN data[i] ELSE Undefined

\* The store into a Uint8ClampedArray: NaN -> 0, clamp to 0..255, round to
\* nearest, ties to even.  num/1000 is the value stored.
ToUint8Clamp(num) ==
    LET f == num \div 1000
        r == num % 1000
        n == IF r < 500 THEN f
             ELSE IF r > 500 THEN f + 1
             ELSE IF f % 2 = 0 THEN f ELSE f + 1
    IN  Max(0, Min(255, n))

\* 0.299 * R + 0.587 * G + 0.114 * B stored into gray[i / 4]
GrayValue(r, g, b) ==
    IF r = Undefined \/ g = Undefined \/ b = Undefined THEN 0
    ELSE ToUint8Clamp(299 * r + 587 * g + 114 * b)

\* gray after the loop over data: cell p is written iff 4p < data.length
\* (writes past the end of gray are dropped by the typed array).
Grayscale(img) ==
    LET len == Cardinality(DOMAIN img.data)
    IN  [p \in 0 .. (img.width * img.height - 1) |->
            IF 4 * p < len
            THEN GrayValue(DataAt(img.data, 4 * p), DataAt(img.data, 4 * p + 1),
                           DataAt(img.data, 4 * p + 2))
            ELSE 0]

\* ------------------------------------------------- Step 2: Otsu threshold
Hist(g) == [i \in 0 .. 255 |-> Cardinality({p \in DOMAIN g : g[p] = i})]

\* for (let i = 0; i < 256; i++) sum += i * hist[i], over the bins lo..hi.
\* The loops over the 256 bins are unrolled by halves.
RECURSIVE WeightedSum(_, _, _)
WeightedSum(hist, lo, hi) ==
    IF lo = hi THEN lo * hist[lo]
    ELSE LET mid == (lo + hi) \div 2
         IN  WeightedSum(hist, lo, mid) + WeightedSum(hist, mid + 1, hi)

\* between = wB * wF * (mB - mF) ** 2 with mB = sumB / wB, mF = (sum - sumB) / wF,
\* as the exact quotient (sumB * wF - (sum - sumB) * wB)^2 / (wB * wF)
Between(wB, wF, sumB, sum) ==
    LET n == sumB * wF - (sum - sumB) * wB
    IN  <<n * n, wB * wF>>

\* between > maxVar
Exceeds(between, maxVar) == FracGT(between[1], between[2], maxVar[1], maxVar[2])

\* (variant: the threshold starts at 0 instead of 127)
OtsuStartZero ==
    [wB |-> 0, sumB |-> 0, maxVar |-> <<0, 1>>, thresh |-> 0, broke |-> FALSE]

\* let sumB = 0, wB = 0, maxVar = 0, thresh = 127 (maxVar is a quotient)
OtsuStart ==
    [wB |-> 0, sumB |-> 0, maxVar |-> <<0, 1>>, thresh |-> DefaultThresh,
     broke |-> FALSE]

\* One iteration of the loop of lines 56-69 at bin i; `broke` after the break.
OtsuIter(hist, total, sum, st, i) ==
    IF st.broke THEN st
    ELSE LET wB == st.wB + hist[i]
             wF == total - wB
             sumB == st.sumB + i * hist[i]
             between == Between(wB, wF, sumB, sum)
         IN  IF wB = 0 THEN [st EXCEPT !.wB = wB]
             ELSE IF wF = 0 THEN [st EXCEPT !.wB = wB, !.broke = TRUE]
             ELSE IF Exceeds(between, st.maxVar)
                  THEN [st EXCEPT !.wB = wB, !.sumB = sumB, !.maxVar = between,
                                  !.thresh = i]
                  ELSE [st EXCEPT !.wB = wB, !.sumB = sumB]

\* the iterations at bins lo..hi, in order
RECURSIVE OtsuLoop(_, _, _, _, _, _)
OtsuLoop(hist, total, sum, st, lo, hi) ==
    IF lo = hi THEN OtsuIter(hist, total, sum, st, lo)
    ELSE LET mid == (lo + hi) \div 2
         IN  CHOOSE r \in {IF half.broke THEN half
                           ELSE OtsuLoop(hist, total, sum, half, mid + 1, hi) :
                              half \in {OtsuLoop(hist, total, sum, st, lo, mid)}} : TRUE

Otsu(g, total) ==
    CHOOSE t \in {OtsuLoop(h[1], total, h[2], OtsuStart, 0, 255).thresh :
                    h \in {<<hist, WeightedSum(hist, 0, 255)>> : hist \in {Hist(g)}}} : TRUE

\* ------------------------------------------------------ Step 3: binarize
\* (variant: the comparison turned round, lighter pixels become foreground)
BinaryCellInverted(g, t) == IF g > t THEN Foreground ELSE 0

BinaryCell(g, t) == IF g < t THEN Foreground ELSE 0

Binarize(g, t) == [i \in DOMAIN g |-> BinaryCell(g[i], t)]

\* ---------------------------------------------- Step 4: connected components
getIndex(width, x, y) == y * width + x

OutOfBounds(width, height, x, y) == x < 0 \/ y < 0 \/ x >= width \/ y >= height

\* (variant: the diagonal neighbours are pushed as well)
Neighbors8(x, y) ==
    << <<x + 1, y>>, <<x - 1, y>>, <<x, y + 1>>, <<x, y - 1>>,
       <<x + 1, y + 1>>, <<x - 1, y - 1>>, <<x - 1, y + 1>>, <<x + 1, y - 1>> >>

\* the four entries floodFill pushes for (x, y), and the four neighbours the
\* perimeter loop looks at, in the order of the code
Neighbors(x, y) == << <<x + 1, y>>, <<x - 1, y>>, <<x, y + 1>>, <<x, y - 1>> >>

\* (variant: the filter compares with <= after subtracting, one pixel too few)
BelowMinAreaOffByOne(area, width, height) ==
    area < MinArea - 1 \/ AreaDivisor * area < width * height

\* Math.max(50, (width * height) / 15000) as a quotient over AreaDivisor:
\* area < max(50, n / 15000)  iff  area < 50 or 15000 * area < n
BelowMinArea(area, width, height) ==
    area < MinArea \/ AreaDivisor * area < width * height

\* (variant: a neighbour outside the image does not make a border pixel)
IsBorderInside(bin, width, height, p) ==
    \E k \in 1 .. 4 :
        LET n == Neighbors(p[1], p[2])[k]
        IN  /\ ~OutOfBounds(width, height, n[1], n[2])
            /\ bin[getIndex(width, n[1], n[2])] = 0

\* the border test of lines 120-127 for a pixel of the region
IsBorder(bin, width, height, p) ==
    \E k \in 1 .. 4 :
        LET n == Neighbors(p[1], p[2])[k]
        IN  \/ OutOfBounds(width, height, n[1], n[2])
            \/ bin[getIndex(width, n[1], n[2])] = 0

Edges(bin, width, height, pixels) ==
    SelectSeq(pixels, LAMBDA p : IsBorder(bin, width, height, p))

SampleStep(n) == Max(MinSampleStep, n \div SampleDivisor)

\* angle > 0.4 && angle < 1.3 for the angle between v1 and v2, neither of
\* them zero: cos 1.3 < cos < cos 0.4, on the squares since cos > 0 there
SharpTurn(v1x, v1y, v2x, v2y) ==
    LET dot == v1x * v2x + v1y * v2y
        mm == (v1x * v1x + v1y * v1y) * (v2x * v2x + v2y * v2y)
    IN  /\ dot > 0
        /\ FracGT(dot * dot, mm, CosSqHigh, CosSqScale)
        /\ FracGT(CosSqLow, CosSqScale, dot * dot, mm)

\* one iteration of the corner loop at index i (0-based): 1 if it counts a corner
CornerAt(edges, i, step) ==
    LET n == Len(edges)
        p1 == edges[i + 1]
        p2 == edges[((i + step) % n) + 1]
        p3 == edges[((i + 2 * step) % n) + 1]
        v1x == p2[1] - p1[1]
        v1y == p2[2] - p1[2]
        v2x == p3[1] - p2[1]
        v2y == p3[2] - p2[2]
    IN  IF (v1x = 0 /\ v1y = 0) \/ (v2x = 0 /\ v2y = 0) THEN 0
        ELSE IF SharpTurn(v1x, v1y, v2x, v2y) THEN 1 ELSE 0

RECURSIVE CountCorners(_, _, _)
CountCorners(edges, i, step) ==
    IF i >= Len(edges) THEN 0
    ELSE CornerAt(edges, i, step) + CountCorners(edges, i + step, step)

Corners(edges) == CountCorners(edges, 0, SampleStep(Len(edges)))

\* (4 * Math.PI * area) / (perimeter * perimeter), in thousandths rounded down;
\* a division by zero gives Infinity (area > 0) or NaN (area = 0)
Circularity(area, perimeter) ==
    IF perimeter = 0
    THEN [kind |-> IF area = 0 THEN "NaN" ELSE "Infinity", milli |-> 0]
    ELSE [kind |-> "finite",
          milli |-> (4 * PiMicro * area) \div (1000 * perimeter * perimeter)]

\* circularity > t / 1000 and circularity < t / 1000 (4 pi area / perimeter^2 is
\* never a multiple of 1/1000; every comparison with NaN is false)
CircGT(c, t) == c.kind = "Infinity" \/ (c.kind = "finite" /\ c.milli >= t)

CircLT(c, t) == c.kind = "finite" /\ c.milli < t

\* fillRatio < 0.55 with fillRatio = area / (w * h)
FillRatioLow(area, w, h) == 100 * area < 55 * w * h

Classify(corners, circularity, area, w, h) ==
    IF corners <= 3 THEN "triangle"
    ELSE IF corners <= 5
         THEN (IF CircGT(circularity, 700) THEN "rectangle" ELSE "pentagon")
    ELSE IF corners > 7
         THEN (IF FillRatioLow(area, w, h) /\ CircLT(circularity, 600)
               THEN "star" ELSE "circle")
    ELSE "circle"

\* (variant: width and height without the + 1)
BoundingBoxOffByOne(mnX, mxX, mnY, mxY) ==
    [x |-> mnX, y |-> mnY, width |-> mxX - mnX, height |-> mxY - mnY]

\* boundingBox of the returned shape
BoundingBox(mnX, mxX, mnY, mxY) ==
    [x |-> mnX, y |-> mnY, width |-> mxX - mnX + 1, height |-> mxY - mnY + 1]

\* What floodFill returns after its stack loop (lines 101-181) for a region that
\* passes the area filter.  confidence and center are quotients.
MakeShape(bin, width, height, pixels, mnX, mxX, mnY, mxY) ==
    LET area == Len(pixels)
        box == BoundingBox(mnX, mxX, mnY, mxY)
        edges == Edges(bin, width, height, pixels)
        perimeter == Len(edges)
        corners == Corners(edges)
        circularity == Circularity(area, perimeter)
    IN  [type |-> Classify(corners, circularity, area, box.width, box.height),
         confidence |-> <<9, 10>>,
         boundingBox |-> box,
         center |-> [x |-> <<mnX + mxX, 2>>, y |-> <<mnY + mxY, 2>>],
         area |-> area]

\* ------------------------------------------------------------------ inputs
\* An ImageData of width * height pixels whose pixel (x, y) has the colour
\* px[<<x, y>>] = <<R, G, B>>, opaque, in len bytes (len = 4 * width * height for a
\* well-formed ImageData).
Rgba(width, height, len, px) ==
    [width |-> width, height |-> height,
     data |-> [i \in 0 .. (len - 1) |->
                 IF i % 4 = 3 THEN 255
                 ELSE IF width <= 0 THEN px[<<0, 0>>][(i % 4) + 1]
                 ELSE px[<<(i \div 4) % width, (i \div 4) \div width>>][(i % 4) + 1]]]

Image(width, height, px) == Rgba(width, height, 4 * width * height, px)

\* the pixel positions of a picture (one position when it has none)
Positions(width, height) ==
    (0 .. (Max(width, 1) - 1)) \X (0 .. (Max(height, 1) - 1))

\* a picture of one colour
Plain(width, height, c) == [p \in Positions(width, height) |-> c]

Grey(v) == <<v, v, v>>

\* the three intensities of the drawn images
Dark == Grey(0)
Mid == Grey(1)
Light == Grey(5)

Palette == {Grey(0), Grey(126), Grey(127), Grey(255), <<255, 0, 0>>}

\* the side of the smallest square that passes the area filter
MinSide == CHOOSE s \in 1 .. MinArea : s * s >= MinArea /\ (s - 1) * (s - 1) < MinArea

\* the sizes of the one-colour images: full size, small, and the two sizes next
\* to the area filter (MinArea pixels, and a square of less)
AtMinArea == <<MinArea \div 5, 5>>

Sizes == {<<BigW, BigH>>, <<SmallW, SmallH>>, AtMinArea, <<MinSide - 1, MinSide - 1>>}

\* every pixel the same colour
UniformImages ==
    {Image(s[1], s[2], Plain(s[1], s[2], c)) : s \in Sizes, c \in Palette}

\* width or height <= 0, or a buffer whose length is not 4 * width * height
MalformedImages ==
    LET Black == Plain(AtMinArea[1], AtMinArea[2], Grey(0))
        White == Plain(AtMinArea[1], AtMinArea[2], Grey(255))
    IN  {Rgba(0, SmallH, 0, Black), Rgba(SmallW, 0, 8, Black),
         Rgba(-1, SmallH, 0, Black), Rgba(-1, -1, 4, Black),
         Rgba(AtMinArea[1], AtMinArea[2], 6, Black),
         Rgba(AtMinArea[1], AtMinArea[2], 6, White),
         Rgba(AtMinArea[1], AtMinArea[2], 0, White),
         Rgba(SmallW, SmallH, 4 * SmallW * SmallH + 4, Black)}

\* the pixel that carries the noise: a corner of the image outside the square
NoisePixel(s, x0, y0) ==
    IF x0 > 0 \/ y0 > 0 THEN <<0, 0>>
    ELSE IF s < BigW THEN <<BigW - 1, 0>>
    ELSE <<0, BigH - 1>>

\* a filled axis-aligned square of side s at (x0, y0), of colour ink on paper;
\* with noise, one pixel outside the square is Mid
SquarePx(s, x0, y0, ink, paper, noise, x, y) ==
    IF x0 <= x /\ x < x0 + s /\ y0 <= y /\ y < y0 + s THEN ink
    ELSE IF noise /\ <<x, y>> = NoisePixel(s, x0, y0) THEN Mid
    ELSE paper

SquareParams ==
    {r \in [s : {MinSide, Min(BigW, BigH)}, x0 : {0, 1}, y0 : {0, BigH - MinSide},
            ink : {Dark, Mid}, noise : BOOLEAN] :
        /\ r.x0 + r.s <= BigW
        /\ r.y0 + r.s <= BigH
        /\ r.s * r.s < BigW * BigH
        /\ r.noise => r.ink = Dark}

SquareImage(q) ==
    Image(BigW, BigH,
          [p \in Positions(BigW, BigH) |->
             SquarePx(q.s, q.x0, q.y0, q.ink, Light, q.noise, p[1], p[2])])

SquareImages == {SquareImage(q) : q \in SquareParams}

\* two blocks of Dark left and right of the column SepX, which is Light with a
\* Mid pixel in its last row; the pixels of `notches` are Light, and the pixel
\* of the column in row `bridge` is Dark (-1: none)
SepX == (BigW - 1) \div 2

BlocksPx(notches, bridge, x, y) ==
    IF <<x, y>> \in notches THEN Light
    ELSE IF x # SepX THEN Dark
    ELSE IF y = bridge THEN Dark
    ELSE IF y = BigH - 1 THEN Mid
    ELSE Light

Notches ==
    {{}, {<<0, 0>>}, {<<SepX + 1, 0>>}, {<<BigW - 2, 2>>},
     {<<SepX - 1, 0>>, <<SepX + 1, 0>>}}

BlockImages ==
    {Image(BigW, BigH, [p \in Positions(BigW, BigH) |-> BlocksPx(n, b, p[1], p[2])]) :
        n \in Notches, b \in -1 .. 0}

\* a checkerboard of Dark and Light with one Mid pixel: cells that touch only
\* diagonally
CheckerPx(phase, x, y) ==
    IF (x + y) % 2 = phase THEN Dark
    ELSE IF y = 0 /\ x <= 1 THEN Mid
    ELSE Light

CheckerImages ==
    {Image(s[1], s[2], [p \in Positions(s[1], s[2]) |-> CheckerPx(ph, p[1], p[2])]) :
        s \in {<<BigW, BigH>>, <<SmallW, SmallH>>}, ph \in 0 .. 1}

\* every 2 x 2 image over the three intensities
TinyImages ==
    {Image(2, 2, [p \in Positions(2, 2) |-> f[getIndex(2, p[1], p[2])]]) :
        f \in [0 .. 3 -> {Dark, Mid, Light}]}

Inputs ==
    UniformImages \cup MalformedImages \cup SquareImages \cup BlockImages
        \cup CheckerImages \cup TinyImages

WellFormed(img) ==
    /\ img.width > 0
    /\ img.height > 0
    /\ Cardinality(DOMAIN img.data) = 4 * img.width * img.height

\* ------------------------------------------------------------------- state
VARIABLES
    pc,         \* where the detector is: "idle" or a step of detectShapes
    imageData,  \* the argument of the call: [width, height, data]
    clock,      \* performance.now()
    start,      \* const start
    gray,       \* Uint8ClampedArray(width * height)
    thresh,     \* Otsu threshold
    binary,     \* Uint8ClampedArray(width * height), cells 0 or 255
    visited,    \* Uint8Array(width * height), cells 0 or 1
    shapes,     \* DetectedShape[]
    scan,       \* y * width + x of the mask scan
    stack,      \* floodFill: stack
    pixels,     \* floodFill: pixels
    extent,     \* floodFill: [minX, maxX, minY, maxY]
    regions,    \* history: the pixels of every floodFill of this call, and
                \* whether it returned a shape
    returned    \* history: what each finished call returned or threw

vars ==
    <<pc, imageData, clock, start, gray, thresh, binary, visited, shapes, scan,
      stack, pixels, extent, regions, returned>>

locals == <<gray, thresh, binary, visited, shapes, scan, stack, pixels, extent>>

NoImage == [width |-> 0, height |-> 0, data |-> <<>>]

NoExtent == [minX |-> 0, maxX |-> 0, minY |-> 0, maxY |-> 0]

NumCells == imageData.width * imageData.height

Init ==
    /\ pc = "idle"
    /\ imageData = NoImage
    /\ clock = 0
    /\ start = 0
    /\ gray = <<>>
    /\ thresh = DefaultThresh
    /\ binary = <<>>
    /\ visited = <<>>
    /\ shapes = <<>>
    /\ scan = 0
    /\ stack = <<>>
    /\ pixels = <<>>
    /\ extent = NoExtent
    /\ regions = <<>>
    /\ returned = <<>>

\* ----------------------------------------------------------------- actions
Zeros(n) == [i \in 0 .. (n - 1) |-> 0]

\* (variant: the list of the previous call is kept instead of a fresh one)
KeptShapes == IF returned = <<>> THEN <<>> ELSE returned[Len(returned)].shapes

\* const shapes: DetectedShape[] = []
NewShapes == <<>>

\* (variant: the cell is not marked)
NotMarked(v, idx) == v

\* the locals of detectShapes before they are assigned, and after it returned
ResetLocals ==
    /\ gray' = <<>>
    /\ thresh' = DefaultThresh
    /\ binary' = <<>>
    /\ visited' = <<>>
    /\ shapes' = <<>>
    /\ scan' = 0
    /\ stack' = <<>>
    /\ pixels' = <<>>
    /\ extent' = NoExtent

\* The caller passes an ImageData: any input on the first call, the same
\* buffer again on a later one.
Callable(img) ==
    /\ pc = "idle"
    /\ Len(returned) < MaxCalls
    /\ img \in Inputs
    /\ returned # <<>> => img = imageData

\* lines 39-44: start = performance.now(); gray = new Uint8ClampedArray(w * h)
detectShapes(img) ==
    /\ Callable(img)
    /\ img.width * img.height >= 0
    /\ imageData' = img
    /\ start' = clock
    /\ gray' = Zeros(img.width * img.height)
    /\ regions' = <<>>
    /\ pc' = "grayscale"
    /\ UNCHANGED <<clock, thresh, binary, visited, shapes, scan, stack, pixels,
                   extent, returned>>

\* line 44 with width * height < 0: the typed array constructor throws a
\* RangeError and the promise is rejected
detectShapesThrows(img) ==
    /\ Callable(img)
    /\ img.width * img.height < 0
    /\ imageData' = img
    /\ start' = clock
    /\ regions' = <<>>
    /\ returned' = Append(returned,
                          [kind |-> "RangeError", shapes |-> <<>>,
                           processingTime |-> 0, imageWidth |-> img.width,
                           imageHeight |-> img.height])
    /\ UNCHANGED <<pc, clock, locals>>

\* lines 45-47
GrayscaleStep ==
    /\ pc = "grayscale"
    /\ gray' = Grayscale(imageData)
    /\ pc' = "otsu"
    /\ UNCHANGED <<imageData, clock, start, thresh, binary, visited, shapes, scan,
                   stack, pixels, extent, regions, returned>>

\* lines 49-69
OtsuStep ==
    /\ pc = "otsu"
    /\ thresh' = Otsu(gray, NumCells)
    /\ pc' = "binarize"
    /\ UNCHANGED <<imageData, clock, start, gray, binary, visited, shapes, scan,
                   stack, pixels, extent, regions, returned>>

\* lines 71-80
BinarizeStep ==
    /\ pc = "binarize"
    /\ binary' = Binarize(gray, thresh)
    /\ visited' = Zeros(NumCells)
    /\ shapes' = NewShapes
    /\ scan' = 0
    /\ pc' = "scan"
    /\ UNCHANGED <<imageData, clock, start, gray, thresh, stack, pixels, extent,
                   regions, returned>>

\* the cells the two scan loops still look at, row-major from `scan`
ScanCells ==
    IF imageData.width > 0 /\ imageData.height > 0
    THEN scan .. (NumCells - 1) ELSE {}

\* binary[idx] === 255 && !visited[idx]
Unclaimed == {i \in ScanCells : binary[i] = Foreground /\ visited[i] = 0}

\* the conditions of lines 184-187 under which the scan goes on or ends
CanCallFloodFill == pc = "scan" /\ Unclaimed # {}

CanEndScan == pc = "scan" /\ Unclaimed = {}

\* lines 184-188: the scan reaches the next unclaimed foreground cell and calls
\* floodFill(x, y) (lines 83-85)
ScanCallsFloodFill ==
    /\ CanCallFloodFill
    /\ LET i == CHOOSE j \in Unclaimed : \A k \in Unclaimed : j <= k
           x == i % imageData.width
           y == i \div imageData.width
       IN  /\ scan' = i
           /\ stack' = << <<x, y>> >>
           /\ extent' = [minX |-> x, maxX |-> x, minY |-> y, maxY |-> y]
    /\ pixels' = <<>>
    /\ pc' = "floodFill"
    /\ UNCHANGED <<imageData, clock, start, gray, thresh, binary, visited, shapes,
                   regions, returned>>

\* lines 184-192: no unclaimed foreground cell is left, the loops end
ScanEnds ==
    /\ CanEndScan
    /\ scan' = Max(scan, NumCells)
    /\ pc' = "return"
    /\ UNCHANGED <<imageData, clock, start, gray, thresh, binary, visited, shapes,
                   stack, pixels, extent, regions, returned>>

Top == stack[Len(stack)]

Popped == SubSeq(stack, 1, Len(stack) - 1)

TopOutOfBounds == OutOfBounds(imageData.width, imageData.height, Top[1], Top[2])

TopIndex == getIndex(imageData.width, Top[1], Top[2])

\* the conditions of lines 87-91 on the entry that is popped
CanPopOutOfBounds == pc = "floodFill" /\ stack # <<>> /\ TopOutOfBounds

CanPopSkipped ==
    /\ pc = "floodFill"
    /\ stack # <<>>
    /\ ~TopOutOfBounds
    /\ visited[TopIndex] # 0 \/ binary[TopIndex] = 0

CanPopClaim ==
    /\ pc = "floodFill"
    /\ stack # <<>>
    /\ ~TopOutOfBounds
    /\ visited[TopIndex] = 0 /\ binary[TopIndex] # 0

\* lines 88-89: the popped entry is outside the image
PopOutOfBounds ==
    /\ CanPopOutOfBounds
    /\ stack' = Popped
    /\ UNCHANGED <<pc, imageData, clock, start, gray, thresh, binary, visited,
                   shapes, scan, pixels, extent, regions, returned>>

\* lines 90-91: the popped cell is visited already, or background
PopSkipped ==
    /\ CanPopSkipped
    /\ stack' = Popped
    /\ UNCHANGED <<pc, imageData, clock, start, gray, thresh, binary, visited,
                   shapes, scan, pixels, extent, regions, returned>>

\* visited[idx] = 1
MarkVisited(v, idx) == [v EXCEPT ![idx] = 1]

\* stack.push([x + 1, y], [x - 1, y], [x, y + 1], [x, y - 1])
Push(stk, x, y) == stk \o Neighbors(x, y)

\* lines 94-97
Widen(e, x, y) ==
    [minX |-> Min(e.minX, x), maxX |-> Max(e.maxX, x),
     minY |-> Min(e.minY, y), maxY |-> Max(e.maxY, y)]

\* lines 92-98: the popped cell is claimed for the region
PopClaims ==
    /\ CanPopClaim
    /\ visited' = MarkVisited(visited, TopIndex)
    /\ pixels' = Append(pixels, Top)
    /\ extent' = Widen(extent, Top[1], Top[2])
    /\ stack' = Push(Popped, Top[1], Top[2])
    /\ UNCHANGED <<pc, imageData, clock, start, gray, thresh, binary, shapes, scan,
                   regions, returned>>

\* What the floodFill that ends now has found: where it started, the cells of
\* `pixels`, and for a region that passes the filter the perimeter it counted
\* and the circularity it compared.
Region(accepted) ==
    LET perimeter ==
            IF accepted
            THEN Len(Edges(binary, imageData.width, imageData.height, pixels))
            ELSE 0
    IN  [seed |-> scan,
         cells |-> {getIndex(imageData.width, pixels[k][1], pixels[k][2]) :
                      k \in 1 .. Len(pixels)},
         count |-> Len(pixels),
         accepted |-> accepted,
         perimeter |-> perimeter,
         circularity |-> IF accepted THEN Circularity(Len(pixels), perimeter)
                         ELSE [kind |-> "none", milli |-> 0]]

\* line 87 with the stack empty, and the filter of line 102
CanReject ==
    /\ pc = "floodFill"
    /\ stack = <<>>
    /\ BelowMinArea(Len(pixels), imageData.width, imageData.height)

CanAccept ==
    /\ pc = "floodFill"
    /\ stack = <<>>
    /\ ~BelowMinArea(Len(pixels), imageData.width, imageData.height)

\* lines 101-102 and 189: the region is too small, floodFill returns null
FloodFillRejects ==
    /\ CanReject
    /\ regions' = Append(regions, Region(FALSE))
    /\ pixels' = <<>>
    /\ extent' = NoExtent
    /\ scan' = scan + 1
    /\ pc' = "scan"
    /\ UNCHANGED <<imageData, clock, start, gray, thresh, binary, visited, shapes,
                   stack, returned>>

\* lines 101-181 and 189: floodFill returns a shape, which is pushed
FloodFillAccepts ==
    /\ CanAccept
    /\ shapes' = Append(shapes,
                        MakeShape(binary, imageData.width, imageData.height, pixels,
                                  extent.minX, extent.maxX, extent.minY, extent.maxY))
    /\ regions' = Append(regions, Region(TRUE))
    /\ pixels' = <<>>
    /\ extent' = NoExtent
    /\ scan' = scan + 1
    /\ pc' = "scan"
    /\ UNCHANGED <<imageData, clock, start, gray, thresh, binary, visited, stack,
                   returned>>

\* what performance.now() advances by during a call: nothing measurable, or a tick
Elapsed == {0, 1}

\* const processingTime = performance.now() - start
ProcessingTime(now, began) == now - began

\* lines 194-195
Return ==
    /\ pc = "return"
    /\ \E d \in Elapsed :
        /\ clock' = clock + d
        /\ returned' = Append(returned,
                              [kind |-> "result", shapes |-> shapes,
                               processingTime |-> ProcessingTime(clock + d, start),
                               imageWidth |-> imageData.width,
                               imageHeight |-> imageData.height])
    /\ ResetLocals
    /\ pc' = "idle"
    /\ UNCHANGED <<imageData, start, regions>>

\* the steps of a call that is under way
Step ==
    \/ GrayscaleStep
    \/ OtsuStep
    \/ BinarizeStep
    \/ ScanCallsFloodFill
    \/ ScanEnds
    \/ PopOutOfBounds
    \/ PopSkipped
    \/ PopClaims
    \/ FloodFillRejects
    \/ FloodFillAccepts
    \/ Return

Next ==
    \/ \E img \in Inputs : detectShapes(img)
    \/ \E img \in Inputs : detectShapesThrows(img)
    \/ Step

Spec == Init /\ [][Next]_vars

\* ----------------------------------------------------- reference notions
\* The notions the properties are stated in, defined on the mask and the
\* input alone, not by the flood fill.

Width == imageData.width

Height == imageData.height

\* the foreground cells of the mask
Fg == {i \in DOMAIN binary : binary[i] = Foreground}

CellX(i) == i % Width

CellY(i) == i \div Width

\* the cells above, below, left and right of cell i
Adjacent4(i) ==
    {j \in {i - 1, i + 1, i - Width, i + Width} :
        /\ j >= 0
        /\ j < Width * Height
        /\ \/ CellY(j) = CellY(i) /\ (CellX(j) - CellX(i)) \in {-1, 1}
           \/ CellX(j) = CellX(i) /\ (CellY(j) - CellY(i)) \in {-1, 1}}

\* the foreground cells joined to the cells of S by a path of foreground cells,
\* each step up, down, left or right
RECURSIVE Grow(_, _)
Grow(S, frontier) ==
    LET new == {j \in UNION {Adjacent4(i) : i \in frontier} : j \in Fg /\ j \notin S}
    IN  IF new = {} THEN S ELSE Grow(S \cup new, new)

\* the maximal 4-connected set of foreground cells that holds cell i
Component(i) == Grow({i}, {i})

\* the smallest area that passes the filter is max(50, W * H / 15000)
PassesFilter(n) == n >= MinArea /\ AreaDivisor * n >= Width * Height

Accepted == SelectSeq(regions, LAMBDA r : r.accepted)

\* the scan of the mask is over and the locals are still in scope
ScanDone == pc = "return"

\* the pixels of a well-formed image, as colours
PixelColour(img, p) == <<img.data[4 * p], img.data[4 * p + 1], img.data[4 * p + 2]>>

Uniform(img) ==
    /\ WellFormed(img)
    /\ \A p \in 0 .. (img.width * img.height - 1) :
        PixelColour(img, p) = PixelColour(img, 0)

AllBlack(img) == Uniform(img) /\ PixelColour(img, 0) = <<0, 0, 0>>

\* round(0.299 R + 0.587 G + 0.114 B) of a colour
Intensity(c) == (299 * c[1] + 587 * c[2] + 114 * c[3] + 500) \div 1000

WholeImage == [x |-> 0, y |-> 0, width |-> Width, height |-> Height]

\* -------------------------------------------------------------- properties

\* C1: a filled dark square on a uniform lighter background (two intensities,
\* area >= the minimum) is returned as one shape with the square's bounding
\* box, fill ratio 1 (area = width * height of the box) and type rectangle, and
\* the mask's foreground is the square.
C1_SquareIsRectangle ==
    \A q \in SquareParams :
        (~q.noise /\ imageData = SquareImage(q)) =>
            /\ pc \in {"scan", "floodFill", "return"} =>
                 Fg = {getIndex(Width, x, y) :
                         x \in q.x0 .. (q.x0 + q.s - 1), y \in q.y0 .. (q.y0 + q.s - 1)}
            /\ \A k \in 1 .. Len(returned) :
                 /\ Len(returned[k].shapes) = 1
                 /\ returned[k].shapes[1].type = "rectangle"
                 /\ returned[k].shapes[1].area = q.s * q.s
                 /\ returned[k].shapes[1].boundingBox =
                      [x |-> q.x0, y |-> q.y0, width |-> q.s, height |-> q.s]

\* C2 as stated: whatever the common colour, an image whose pixels are all
\* identical yields an empty list of shapes.
C2_UniformGivesNothing ==
    \A k \in 1 .. Len(returned) :
        Uniform(imageData) => returned[k].shapes = <<>>

\* C2 amended: an image whose pixels are all identical yields an empty list
\* of shapes exactly when its intensity is at least 127 or it has fewer than 50
\* pixels; otherwise it yields one shape, the whole image.
C2_UniformGivesNothingUnlessDark ==
    \A k \in 1 .. Len(returned) :
        Uniform(imageData) =>
            IF Intensity(PixelColour(imageData, 0)) >= DefaultThresh
               \/ Width * Height < MinArea
            THEN returned[k].shapes = <<>>
            ELSE /\ Len(returned[k].shapes) = 1
                 /\ returned[k].shapes[1].boundingBox = WholeImage

C2_Witness ==
    /\ returned # <<>>
    /\ Uniform(imageData)
    /\ Width * Height >= MinArea
    /\ PixelColour(imageData, 0) = <<255, 255, 255>>
    /\ returned[1].shapes = <<>>

\* C3 as stated: a single-intensity image keeps the default threshold 127, and
\* a fully black W x H image returns exactly one shape of area W * H with
\* bounding box {0, 0, W, H}.
C3_BlackGivesOneShape ==
    /\ (pc \in {"binarize", "scan", "floodFill", "return"}
          /\ Cardinality({gray[p] : p \in DOMAIN gray}) = 1) => thresh = DefaultThresh
    /\ \A k \in 1 .. Len(returned) :
        AllBlack(imageData) =>
            /\ returned[k].kind = "result"
            /\ Len(returned[k].shapes) = 1
            /\ returned[k].shapes[1].area = Width * Height
            /\ returned[k].shapes[1].boundingBox = WholeImage

\* C3 amended: a single-intensity image keeps the default threshold 127, and a
\* fully black W x H image with W * H >= 50 returns, without failing, exactly
\* one shape of area W * H with bounding box {0, 0, W, H}.
C3_BigBlackGivesOneShape ==
    /\ (pc \in {"binarize", "scan", "floodFill", "return"}
          /\ Cardinality({gray[p] : p \in DOMAIN gray}) = 1) => thresh = DefaultThresh
    /\ (pc \in {"scan", "floodFill", "return"} /\ AllBlack(imageData)) =>
          Fg = DOMAIN binary
    /\ \A k \in 1 .. Len(returned) :
        (AllBlack(imageData) /\ Width * Height >= MinArea) =>
            /\ returned[k].kind = "result"
            /\ Len(returned[k].shapes) = 1
            /\ returned[k].shapes[1].area = Width * Height
            /\ returned[k].shapes[1].boundingBox = WholeImage

C3_Witness ==
    /\ returned # <<>>
    /\ AllBlack(imageData)
    /\ Width * Height >= MinArea
    /\ Len(returned[1].shapes) = 1
    /\ returned[1].shapes[1].area = Width * Height

\* C4: a call whose buffer length is not W * H * 4, or with W <= 0 or H <= 0,
\* fails at once with InvalidInput: it takes no step of the pipeline and
\* returns no result.
C4_InvalidInputRejected ==
    (~WellFormed(imageData) /\ (pc # "idle" \/ returned # <<>>)) =>
        /\ pc = "idle"
        /\ \A k \in 1 .. Len(returned) : returned[k].kind = "InvalidInput"

\* C5: when the scan is over, the shapes are those of the regions that passed
\* the filter, in order; each shape's area is the number of cells of the
\* maximal 4-connected foreground set its flood fill started in, and is at
\* least max(50, W * H / 15000); a region with fewer cells gave no shape.
C5_AreaIsRegionSize ==
    ScanDone =>
        /\ Len(shapes) = Len(Accepted)
        /\ \A j \in 1 .. Len(shapes) :
            /\ shapes[j].area = Cardinality(Component(Accepted[j].seed))
            /\ shapes[j].area >= MinArea
            /\ AreaDivisor * shapes[j].area >= Width * Height
        /\ \A k \in 1 .. Len(regions) :
            regions[k].accepted = PassesFilter(Cardinality(Component(regions[k].seed)))

C5_Witness ==
    /\ ScanDone
    /\ Len(shapes) = 2
    /\ \E k \in 1 .. Len(regions) : ~regions[k].accepted
    /\ \E j \in 1 .. Len(shapes) :
        shapes[j].area < shapes[j].boundingBox.width * shapes[j].boundingBox.height

\* C6: when the scan is over, every shape's bounding box lies in the image
\* and is exactly the extent of its region's cells.
C6_BoundingBoxIsExtent ==
    ScanDone =>
        \A j \in 1 .. Len(shapes) :
            LET box == shapes[j].boundingBox
                cells == Component(Accepted[j].seed)
                xs == {CellX(i) : i \in cells}
                ys == {CellY(i) : i \in cells}
            IN  /\ 0 <= box.x
                /\ box.x + box.width <= Width
                /\ 0 <= box.y
                /\ box.y + box.height <= Height
                /\ \A x \in xs : box.x <= x /\ x <= box.x + box.width - 1
                /\ \A y \in ys : box.y <= y /\ y <= box.y + box.height - 1
                /\ box.x \in xs
                /\ box.x + box.width - 1 \in xs
                /\ box.y \in ys
                /\ box.y + box.height - 1 \in ys

C6_Witness ==
    /\ ScanDone
    /\ \E j \in 1 .. Len(shapes) :
        /\ shapes[j].boundingBox.x > 0
        /\ shapes[j].boundingBox.x + shapes[j].boundingBox.width < Width
        /\ shapes[j].boundingBox.height < Height

\* C7 as stated: two calls in sequence on the same buffer return identical
\* results, processing duration included.
C7_SameResult ==
    \A j, k \in 1 .. Len(returned) : returned[j] = returned[k]

\* C7 amended: two calls in sequence on the same buffer return the same
\* shapes, width and height; the processing duration is a measurement and may
\* differ.
C7_SameShapes ==
    \A j, k \in 1 .. Len(returned) :
        /\ returned[j].kind = returned[k].kind
        /\ returned[j].shapes = returned[k].shapes
        /\ returned[j].imageWidth = returned[k].imageWidth
        /\ returned[j].imageHeight = returned[k].imageHeight

C7_Witness ==
    /\ Len(returned) >= 2
    /\ returned[1].shapes # <<>>
    /\ returned[1].shapes = returned[2].shapes
    /\ returned[1].processingTime # returned[2].processingTime

\* C8: for a mask of W x H cells (W, H >= 0), during the scan the visited cells
\* are exactly the cells claimed by the flood fills so far (so none is ever
\* cleared, whether its region was kept or rejected), no cell is claimed twice,
\* and when the scan is over every foreground cell is in exactly one region and
\* each region is a maximal 4-connected set of foreground cells.
C8_RegionsPartitionForeground ==
    LET current == {getIndex(Width, pixels[k][1], pixels[k][2]) : k \in 1 .. Len(pixels)}
        claimed == UNION {regions[k].cells : k \in 1 .. Len(regions)}
    IN  (Width >= 0 /\ Height >= 0) =>
        /\ pc \in {"scan", "floodFill", "return"} =>
            /\ \A i \in DOMAIN visited :
                visited[i] = 1 <=> i \in claimed \cup current
            /\ Cardinality(current) = Len(pixels)
            /\ claimed \cap current = {}
            /\ \A k \in 1 .. Len(regions) :
                /\ regions[k].count = Cardinality(regions[k].cells)
                /\ \A m \in 1 .. Len(regions) :
                    m # k => regions[k].cells \cap regions[m].cells = {}
        /\ ScanDone =>
            /\ claimed = Fg
            /\ \A k \in 1 .. Len(regions) :
                regions[k].cells = Component(regions[k].seed)

\* two foreground cells that touch at a corner only, in different regions, one
\* of them rejected by the filter and one kept
C8_Witness ==
    /\ ScanDone
    /\ \E k, m \in 1 .. Len(regions) :
        /\ regions[k].accepted
        /\ ~regions[m].accepted
        /\ \E i \in regions[k].cells, j \in regions[m].cells :
            /\ CellX(i) - CellX(j) \in {-1, 1}
            /\ CellY(i) - CellY(j) \in {-1, 1}

Unclaimed0 == {i \in DOMAIN binary : binary[i] = Foreground /\ visited[i] = 0}

\* A measure of the work a call has left: 0 when no call is under way.  A
\* claimed cell costs 4 (it pushes four entries and pops one), an entry on the
\* stack 1, a cell the scan has not passed 3.
Rank ==
    LET n == Cardinality(DOMAIN gray)
        left == 4 * Cardinality(Unclaimed0) + Len(stack) + 3 * (n + 1 - scan)
    IN  CASE pc = "idle" -> 0
          [] pc = "grayscale" -> 7 * n + 8
          [] pc = "otsu" -> 7 * n + 7
          [] pc = "binarize" -> 7 * n + 6
          [] pc = "scan" -> left + 2
          [] pc = "floodFill" -> left
          [] pc = "return" -> 1

\* the condition of some step of the call holds
StepPossible ==
    \/ pc \in {"grayscale", "otsu", "binarize", "return"}
    \/ CanCallFloodFill
    \/ CanEndScan
    \/ CanPopOutOfBounds
    \/ CanPopSkipped
    \/ CanPopClaim
    \/ CanReject
    \/ CanAccept

\* C10: a call that has begun comes to its end: while it is under way a step is
\* always possible, a popped entry that is outside the image, visited or
\* background pushes nothing, a claimed cell pushes exactly four entries, and
\* every step lowers the finite measure Rank, so every flood fill empties its
\* stack and the scan returns.
C10_Terminates ==
    /\ [](pc # "idle" => StepPossible)
    /\ [][pc # "idle" => (Rank' < Rank /\ Rank' >= 0)]_vars
    /\ [][(pc = "floodFill" /\ pc' = "floodFill") =>
            \/ Len(stack') = Len(stack) - 1 /\ visited' = visited
            \/ /\ Len(stack') = Len(stack) + 3
               /\ Cardinality(Unclaimed0') = Cardinality(Unclaimed0) - 1]_vars

C10_Witness ==
    /\ pc = "idle"
    /\ returned # <<>>
    /\ returned[1].kind = "result"
    /\ Len(regions) >= 2

====
